---- MODULE Spec2Model ----
(***************************************************************************)
(* Verification model of the generic MCP server template:                  *)
(*   - ApiClient (get / post / clearCache with the TTL cache),             *)
(*   - the two CallToolRequestSchema dispatchers of index.ts,              *)
(*   - the example tool handlers and the ExampleService calls they make.   *)
(***************************************************************************)
EXTENDS Integers, Sequences, FiniteSets, TLC

\* ------------------------------------------------------------------------
\* Bounds of the model
\* ------------------------------------------------------------------------
MaxOps == 2
MaxTicks == 2
TtlSeconds == 2
MaxResults == 2

\* Program constant: milliseconds per second (config.api.cacheTtlSeconds * 1000)
MsPerSecond == 1000

VARIABLES
    cache,            \* ApiClient.cache : Map<string, {data, timestamp}>
    now,              \* Date.now(), in milliseconds
    cacheTtlSeconds,  \* config.api.cacheTtlSeconds, read once at startup
    calls,            \* one record per concurrent caller of the ApiClient
    opsLeft,          \* how many more get/post calls this run may start
    last,             \* history: the operation that completed most recently
    lastStore,        \* history: what the most recent event stored, if it was a successful cached GET
    watch,            \* history: URLs cached when clearCache ran during a cached GET, not read since
    fetched,          \* history: <<URL, body>> of every successful fetch made by a GET with useCache=true
    variant,          \* which index.ts is running: "tools" (TOOLS) or "example" (exampleToolHandlers)
    dpc,              \* position of the tool call being dispatched
    req,              \* request.params of that call: name, arguments
    stages,           \* history: the stages this dispatch went through
    handlerCalls,     \* history: how often a tool handler was invoked in this dispatch
    svcCalls,         \* history: the ExampleService methods called in this dispatch
    svcResp,          \* history: what the awaited ExampleService call settled with
    outcome,          \* what the dispatcher handed to the transport
    errShapes,        \* history: the shapes of the failures handed over so far
    rd,               \* the resources/read request served last and what it gave
    cfg,              \* which configuration module the process loads: "cli" (config.ts) or "plain"
    spc,              \* position of the startup
    argv,             \* process.argv.slice(2)
    env,              \* process.env
    argi,             \* index of the argument the parsing loop is at (from 1)
    envArgs,          \* the KEY=VALUE pairs parsed so far
    configuration,    \* the configuration object, once built
    startupError,     \* message of the Error that ended the startup, <<>> if none
    warnings,         \* what console.warn was given
    instance,         \* ExampleService.instance
    built,            \* history: how many ExampleService objects were constructed
    created,          \* history: what the startup has created, in order
    svcLast,          \* history: the last initialize/getInstance call and its result
    initKeys,         \* history: the apiKey of every initialize call, in order
    callsLeft         \* how many more initialize/getInstance calls other modules may make

apiVars == <<cache, now, cacheTtlSeconds, calls, opsLeft, last, lastStore, watch, fetched>>

dispVars == <<variant, dpc, req, stages, handlerCalls, svcCalls, svcResp, outcome, errShapes, rd>>

bootVars == <<cfg, spc, argv, env, argi, envArgs, configuration, startupError, warnings,
              instance, built, created, svcLast, initKeys, callsLeft>>

vars == <<cache, now, cacheTtlSeconds, calls, opsLeft, last, lastStore, watch, fetched,
          variant, dpc, req, stages, handlerCalls, svcCalls, svcResp, outcome, errShapes, rd,
          cfg, spc, argv, env, argi, envArgs, configuration, startupError, warnings,
          instance, built, created, svcLast, initKeys, callsLeft>>

\* ------------------------------------------------------------------------
\* JavaScript values
\* ------------------------------------------------------------------------
\* A value as the code sees it at run time; every field is present in every
\* value so that values of different types compare.
Undef == [t |-> "undefined", s |-> "", n |-> 0, a |-> <<>>]
Null == [t |-> "null", s |-> "", n |-> 0, a |-> <<>>]
Str(x) == [t |-> "string", s |-> x, n |-> 0, a |-> <<>>]
Num(k) == [t |-> "number", s |-> "", n |-> k, a |-> <<>>]
Bool(b) == [t |-> "boolean", s |-> "", n |-> IF b THEN 1 ELSE 0, a |-> <<>>]
Arr(items) == [t |-> "array", s |-> "", n |-> 0, a |-> items]

\* ------------------------------------------------------------------------
\* ApiClient: URLs
\* ------------------------------------------------------------------------
Callers == {"c1", "c2"}

\* the values CACHE_TTL_SECONDS is given in the model: 0 and a positive one
TtlChoices == {0, TtlSeconds}

Endpoints == {"/resources"}

\* params : Record<string, string>, as its entries in insertion order; at
\* run time a value may also be null or undefined
ParamSets ==
    { <<>>,
      << <<"status", Str("active")>> >>,
      << <<"status", Str("")>> >>,
      << <<"status", Null>> >>,
      << <<"status", Undef>> >> }

\* mutant: every entry is serialized, the empty ones too
RECURSIVE AppendParams_KeepsEmpty(_, _)
AppendParams_KeepsEmpty(query, entries) ==
    IF entries = <<>> THEN query
    ELSE LET e == Head(entries)
         IN  AppendParams_KeepsEmpty(Append(query, <<e[1], e[2].s>>), Tail(entries))

\* Object.entries(params).forEach: append every entry whose value is not
\* undefined, not null and not ''
RECURSIVE AppendParams(_, _)
AppendParams(query, entries) ==
    IF entries = <<>> THEN query
    ELSE LET e == Head(entries)
         IN  IF e[2] # Undef /\ e[2] # Null /\ e[2] # Str("")
             THEN AppendParams(Append(query, <<e[1], e[2].s>>), Tail(entries))
             ELSE AppendParams(query, Tail(entries))

buildUrl(endpoint, params) ==
    [path |-> endpoint, query |-> AppendParams(<<>>, params)]

\* new URL(endpoint, this.baseUrl) of post: no query parameters are merged
postUrl(endpoint) == [path |-> endpoint, query |-> <<>>]

NoKey == [path |-> "", query |-> <<>>]

\* ------------------------------------------------------------------------
\* ApiClient: the upstream's answers
\* ------------------------------------------------------------------------
Data == {"v1", "v2"}
Statuses == {200, 404, 500}
Bodies == Data \cup {"<html>"}

\* what fetch() resolves or rejects with
Responses ==
    { r \in [net : {"up"}, status : Statuses, body : Bodies] :
          r.status = 200 \/ r.body \notin Data }
        \cup { [net |-> "down", status |-> 0, body |-> ""] }

\* no fetch() was made
NoResponse == [net |-> "none", status |-> 0, body |-> ""]

ResponseOk(resp) == resp.status >= 200 /\ resp.status <= 299

NoErr == [kind |-> "none", status |-> 0, body |-> ""]

\* mutant: the error of a non-2xx response leaves the body text out
Settle_DropsBody(resp) ==
    IF resp.net = "down"
    THEN [outcome |-> "fail", value |-> "",
          err |-> [kind |-> "network", status |-> 0, body |-> ""]]
    ELSE IF ~ResponseOk(resp)
    THEN [outcome |-> "fail", value |-> "",
          err |-> [kind |-> "http", status |-> resp.status, body |-> ""]]
    ELSE IF resp.body \notin Data
    THEN [outcome |-> "fail", value |-> "",
          err |-> [kind |-> "parse", status |-> 0, body |-> ""]]
    ELSE [outcome |-> "ok", value |-> resp.body, err |-> NoErr]

\* The result of the try block of get/post for one fetch() outcome:
\* a rejected fetch, a non-2xx status and an unparsable body all throw.
Settle(resp) ==
    IF resp.net = "down"
    THEN [outcome |-> "fail", value |-> "",
          err |-> [kind |-> "network", status |-> 0, body |-> ""]]
    ELSE IF ~ResponseOk(resp)
    THEN [outcome |-> "fail", value |-> "",
          err |-> [kind |-> "http", status |-> resp.status, body |-> resp.body]]
    ELSE IF resp.body \notin Data
    THEN [outcome |-> "fail", value |-> "",
          err |-> [kind |-> "parse", status |-> 0, body |-> ""]]
    ELSE [outcome |-> "ok", value |-> resp.body, err |-> NoErr]

\* ------------------------------------------------------------------------
\* ApiClient: the cache (a Map, modelled as a function on the keys present)
\* ------------------------------------------------------------------------
CacheHas(c, key) == key \in DOMAIN c

\* mutant: storing an entry drops all the others
CacheSet_ReplacesAll(c, key, data, t) ==
    [k \in {key} |-> [data |-> data, timestamp |-> t]]

CacheSet(c, key, data, t) ==
    [k \in (DOMAIN c) \cup {key} |->
        IF k = key THEN [data |-> data, timestamp |-> t] ELSE c[k]]

\* mutant: a clear that removes nothing
CacheClear_KeepsEntries(c) == c

CacheClear(c) == <<>>

\* mutant: an entry is still served when its age equals the TTL
CacheFresh_AtTtl(c, key, t, ttl) ==
    /\ CacheHas(c, key)
    /\ t - c[key].timestamp <= ttl * MsPerSecond

\* mutant: the freshness comparison the wrong way round
CacheFresh_Inverted(c, key, t, ttl) ==
    /\ CacheHas(c, key)
    /\ t - c[key].timestamp >= ttl * MsPerSecond

\* cached && Date.now() - cached.timestamp < config.api.cacheTtlSeconds * 1000
CacheFresh(c, key, t, ttl) ==
    /\ CacheHas(c, key)
    /\ t - c[key].timestamp < ttl * MsPerSecond

\* mutant: the entry is stored under the URL without its query
GetStore_IgnoresQuery(c, useCache, key, data, t) ==
    IF useCache THEN CacheSet(c, [key EXCEPT !.query = <<>>], data, t) ELSE c

\* mutant: the result is stored whatever useCache says
GetStore_Always(c, useCache, key, data, t) == CacheSet(c, key, data, t)

\* mutant: an entry already present is kept instead of being overwritten
GetStore_KeepsOld(c, useCache, key, data, t) ==
    IF useCache /\ ~CacheHas(c, key) THEN CacheSet(c, key, data, t) ELSE c

\* if (useCache) this.cache.set(cacheKey, { data, timestamp: Date.now() })
GetStore(c, useCache, key, data, t) ==
    IF useCache THEN CacheSet(c, key, data, t) ELSE c

\* ------------------------------------------------------------------------
\* ApiClient: state
\* ------------------------------------------------------------------------
IdleCall ==
    [pc |-> "idle", op |-> "none", key |-> NoKey, useCache |-> FALSE,
     lookup |-> "none", fetches |-> 0, repeatOf |-> "", afterClear |-> FALSE,
     dropped |-> 0, mixed |-> FALSE, watched |-> FALSE]

NoStore == [valid |-> FALSE, key |-> NoKey, value |-> "", at |-> 0, dropped |-> 0]

NoLast ==
    [op |-> "none", key |-> NoKey, useCache |-> FALSE, lookup |-> "none",
     fetches |-> 0, repeatOf |-> "", afterClear |-> FALSE, mixed |-> FALSE,
     watched |-> FALSE,
     outcome |-> "none", value |-> "", err |-> NoErr, resp |-> NoResponse,
     cleared |-> {}]

\* history only: how many entries of params buildUrl left out of the URL
Dropped(params, key, useCache) ==
    IF useCache THEN Len(params) - Len(key.query) ELSE 0

\* history only: the value the call made just before this one returned and
\* stored, when that call was a successful GET with useCache=true of the same
\* URL and its entry's age is still below the TTL; "" otherwise
RepeatOf(store, key, useCache, t, ttl) ==
    IF /\ useCache
       /\ store.valid
       /\ store.key = key
       /\ t - store.at < ttl * MsPerSecond
    THEN store.value
    ELSE ""

\* history only: this GET repeats (see RepeatOf) a GET whose params had a
\* different number of entries left out, i.e. the two parameter sets differ
\* by omitted versus empty-valued parameters
Mixed(store, key, params, useCache, t, ttl) ==
    /\ RepeatOf(store, key, useCache, t, ttl) # ""
    /\ store.dropped # Dropped(params, key, useCache)

\* history only: how the claim's words classify the entry a GET finds
Classify(c, key, useCache, t, ttl) ==
    IF ~useCache THEN "skipped"
    ELSE IF key \notin DOMAIN c THEN "absent"
    ELSE IF t - c[key].timestamp >= ttl * MsPerSecond THEN "expired"
    ELSE "fresh"

Finished(call, res, resp) ==
    [op |-> call.op, key |-> call.key, useCache |-> call.useCache,
     lookup |-> call.lookup, fetches |-> call.fetches,
     repeatOf |-> call.repeatOf, afterClear |-> call.afterClear,
     mixed |-> call.mixed, watched |-> call.watched,
     outcome |-> res.outcome, value |-> res.value, err |-> res.err,
     resp |-> resp, cleared |-> {}]

\* Calls have no identity in the code: a new call takes the first slot that is
\* free, so that runs that differ only in the slots' names are explored once.
FreeSlot(c) ==
    /\ calls[c].pc = "idle"
    /\ c = "c2" => calls["c1"].pc # "idle"

InitApi ==
    /\ cache = <<>>
    /\ now = 0
    /\ calls = [c \in Callers |-> IdleCall]
    /\ last = NoLast
    /\ lastStore = NoStore
    /\ watch = {}
    /\ fetched = {}

\* ------------------------------------------------------------------------
\* ApiClient: actions
\* ------------------------------------------------------------------------
\* time passes (Date.now() is read in whole seconds here)
Tick ==
    /\ now < MaxTicks * MsPerSecond
    /\ now' = now + MsPerSecond
    /\ UNCHANGED <<cache, cacheTtlSeconds, calls, opsLeft, last, lastStore, watch, fetched>>
    /\ UNCHANGED <<dispVars, bootVars>>

\* get(): the synchronous part up to `await fetch(...)`.
\* A cache hit returns at once; otherwise the request is issued.
GetStart(c, endpoint, params, useCache) ==
    LET key == buildUrl(endpoint, params)
        call == [pc |-> "fetching", op |-> "get", key |-> key,
                 useCache |-> useCache,
                 lookup |-> Classify(cache, key, useCache, now, cacheTtlSeconds),
                 fetches |-> 0,
                 repeatOf |-> RepeatOf(lastStore, key, useCache, now, cacheTtlSeconds),
                 afterClear |-> (last.op = "clear" /\ key \in last.cleared),
                 dropped |-> Dropped(params, key, useCache),
                 mixed |-> Mixed(lastStore, key, params, useCache, now, cacheTtlSeconds),
                 watched |-> (useCache /\ key \in watch)]
    IN  /\ FreeSlot(c)
        /\ opsLeft > 0
        /\ opsLeft' = opsLeft - 1
        /\ IF useCache /\ CacheFresh(cache, key, now, cacheTtlSeconds)
           THEN /\ last' = Finished(call,
                              [outcome |-> "ok", value |-> cache[key].data, err |-> NoErr],
                              NoResponse)
                /\ lastStore' = [valid |-> TRUE, key |-> key,
                                 value |-> cache[key].data,
                                 at |-> cache[key].timestamp,
                                 dropped |-> call.dropped]
                /\ UNCHANGED calls
           ELSE /\ calls' = [calls EXCEPT ![c] = [call EXCEPT !.fetches = 1]]
                /\ UNCHANGED <<last, lastStore>>
        /\ watch' = IF useCache THEN watch \ {key} ELSE watch
        /\ UNCHANGED <<cache, now, cacheTtlSeconds, fetched>>
        /\ UNCHANGED <<dispVars, bootVars>>

\* mutant: a failed request is issued once more before the call gives up
GetComplete_RetriesOnce(c, resp) ==
    LET call == calls[c]
        res == Settle(resp)
    IN  /\ call.pc = "fetching"
        /\ call.op = "get"
        /\ IF res.outcome = "fail" /\ call.fetches < 2
           THEN /\ calls' = [calls EXCEPT ![c] = [call EXCEPT !.fetches = 2]]
                /\ UNCHANGED <<cache, last, lastStore, fetched>>
           ELSE /\ cache' = IF res.outcome = "ok"
                            THEN GetStore(cache, call.useCache, call.key, res.value, now)
                            ELSE cache
                /\ fetched' = IF res.outcome = "ok" /\ call.useCache
                              THEN fetched \cup {<<call.key, resp.body>>}
                              ELSE fetched
                /\ last' = Finished(call, res, resp)
                /\ lastStore' = IF res.outcome = "ok" /\ call.useCache
                                THEN [valid |-> TRUE, key |-> call.key, value |-> res.value,
                                      at |-> now, dropped |-> call.dropped]
                                ELSE NoStore
                /\ calls' = [calls EXCEPT ![c] = IdleCall]
        /\ UNCHANGED <<now, cacheTtlSeconds, opsLeft, watch>>
        /\ UNCHANGED <<dispVars, bootVars>>

\* mutant: a response also ends the other GETs in flight for the same URL
GetComplete_Coalesced(c, resp) ==
    LET call == calls[c]
        res == Settle(resp)
    IN  /\ call.pc = "fetching"
        /\ call.op = "get"
        /\ cache' = IF res.outcome = "ok"
                    THEN GetStore(cache, call.useCache, call.key, res.value, now)
                    ELSE cache
        /\ last' = Finished(call, res, resp)
        /\ lastStore' = IF res.outcome = "ok" /\ call.useCache
                        THEN [valid |-> TRUE, key |-> call.key, value |-> res.value,
                              at |-> now, dropped |-> call.dropped]
                        ELSE NoStore
        /\ fetched' = IF res.outcome = "ok" /\ call.useCache
                      THEN fetched \cup {<<call.key, resp.body>>}
                      ELSE fetched
        /\ calls' = [d \in Callers |->
                        IF d = c \/ (calls[d].op = "get" /\ calls[d].key = call.key)
                        THEN IdleCall ELSE calls[d]]
        /\ UNCHANGED <<now, cacheTtlSeconds, opsLeft, watch>>
        /\ UNCHANGED <<dispVars, bootVars>>

\* mutant: a failed GET removes the entry of its URL
GetComplete_EvictsOnFailure(c, resp) ==
    LET call == calls[c]
        res == Settle(resp)
    IN  /\ call.pc = "fetching"
        /\ call.op = "get"
        /\ cache' = IF res.outcome = "ok"
                    THEN GetStore(cache, call.useCache, call.key, res.value, now)
                    ELSE [k \in (DOMAIN cache) \ {call.key} |-> cache[k]]
        /\ last' = Finished(call, res, resp)
        /\ lastStore' = IF res.outcome = "ok" /\ call.useCache
                        THEN [valid |-> TRUE, key |-> call.key, value |-> res.value,
                              at |-> now, dropped |-> call.dropped]
                        ELSE NoStore
        /\ fetched' = IF res.outcome = "ok" /\ call.useCache
                      THEN fetched \cup {<<call.key, resp.body>>}
                      ELSE fetched
        /\ calls' = [calls EXCEPT ![c] = IdleCall]
        /\ UNCHANGED <<now, cacheTtlSeconds, opsLeft, watch>>
        /\ UNCHANGED <<dispVars, bootVars>>

\* get(): fetch() has settled; the rest of the try block and the catch
GetComplete(c, resp) ==
    LET call == calls[c]
        res == Settle(resp)
    IN  /\ call.pc = "fetching"
        /\ call.op = "get"
        /\ cache' = IF res.outcome = "ok"
                    THEN GetStore(cache, call.useCache, call.key, res.value, now)
                    ELSE cache
        /\ last' = Finished(call, res, resp)
        /\ lastStore' = IF res.outcome = "ok" /\ call.useCache
                        THEN [valid |-> TRUE, key |-> call.key, value |-> res.value,
                              at |-> now, dropped |-> call.dropped]
                        ELSE NoStore
        /\ fetched' = IF res.outcome = "ok" /\ call.useCache
                      THEN fetched \cup {<<call.key, resp.body>>}
                      ELSE fetched
        /\ calls' = [calls EXCEPT ![c] = IdleCall]
        /\ UNCHANGED <<now, cacheTtlSeconds, opsLeft, watch>>
        /\ UNCHANGED <<dispVars, bootVars>>

\* post(): the synchronous part up to `await fetch(...)`
PostStart(c, endpoint) ==
    /\ FreeSlot(c)
    /\ opsLeft > 0
    /\ opsLeft' = opsLeft - 1
    /\ calls' = [calls EXCEPT ![c] =
                    [pc |-> "fetching", op |-> "post", key |-> postUrl(endpoint),
                     useCache |-> FALSE, lookup |-> "none", fetches |-> 1,
                     repeatOf |-> "", afterClear |-> FALSE,
                     dropped |-> 0, mixed |-> FALSE, watched |-> FALSE]]
    /\ UNCHANGED <<cache, now, cacheTtlSeconds, last, lastStore, watch, fetched>>
    /\ UNCHANGED <<dispVars, bootVars>>

\* mutant: a post that caches its result like get does
PostComplete_Caching(c, resp) ==
    LET call == calls[c]
        res == Settle(resp)
    IN  /\ call.pc = "fetching"
        /\ call.op = "post"
        /\ cache' = IF res.outcome = "ok"
                    THEN CacheSet(cache, call.key, res.value, now)
                    ELSE cache
        /\ last' = Finished(call, res, resp)
        /\ lastStore' = NoStore
        /\ calls' = [calls EXCEPT ![c] = IdleCall]
        /\ UNCHANGED <<now, cacheTtlSeconds, opsLeft, watch, fetched>>
        /\ UNCHANGED <<dispVars, bootVars>>

\* post(): fetch() has settled
PostComplete(c, resp) ==
    LET call == calls[c]
        res == Settle(resp)
    IN  /\ call.pc = "fetching"
        /\ call.op = "post"
        /\ last' = Finished(call, res, resp)
        /\ lastStore' = NoStore
        /\ calls' = [calls EXCEPT ![c] = IdleCall]
        /\ UNCHANGED <<cache, now, cacheTtlSeconds, opsLeft, watch, fetched>>
        /\ UNCHANGED <<dispVars, bootVars>>

\* clearCache()
ClearCache ==
    /\ cache' = CacheClear(cache)
    /\ last' = [NoLast EXCEPT !.op = "clear", !.cleared = DOMAIN cache]
    /\ lastStore' = NoStore
    /\ watch' = IF \E c \in Callers : /\ calls[c].pc = "fetching"
                                       /\ calls[c].op = "get"
                                       /\ calls[c].useCache
                THEN watch \cup DOMAIN cache
                ELSE watch
    /\ UNCHANGED <<now, cacheTtlSeconds, calls, opsLeft, fetched>>
    /\ UNCHANGED <<dispVars, bootVars>>

NextApi ==
    \/ Tick
    \/ \E c \in Callers, e \in Endpoints, p \in ParamSets, u \in BOOLEAN :
          GetStart(c, e, p, u)
    \/ \E c \in Callers, r \in Responses : GetComplete(c, r)
    \/ \E c \in Callers, e \in Endpoints : PostStart(c, e)
    \/ \E c \in Callers, r \in Responses : PostComplete(c, r)
    \/ ClearCache

\* ------------------------------------------------------------------------
\* Argument objects
\* ------------------------------------------------------------------------
\* JavaScript truthiness, as `!args.x` and `if (args.x)` test it
Truthy(v) ==
    CASE v.t = "undefined" -> FALSE
      [] v.t = "null"      -> FALSE
      [] v.t = "string"    -> v.s # ""
      [] v.t = "number"    -> v.n # 0
      [] v.t = "boolean"   -> v.n = 1
      [] OTHER             -> TRUE

\* args.k of an argument object (a function on the keys it has)
Get(args, k) == IF k \in DOMAIN args THEN args[k] ELSE Undef

\* const { resourceId, ...updateData } = args
Rest(args, k) == [f \in (DOMAIN args) \ {k} |-> args[f]]

NoArgs == <<>>

\* every object that gives each key of `keys` one of its values, or omits it
RECURSIVE Objects(_, _)
Objects(keys, vals) ==
    IF keys = {} THEN { NoArgs }
    ELSE LET k == CHOOSE x \in keys : TRUE
             rest == Objects(keys \ {k}, vals)
         IN  rest \cup
             { [f \in (DOMAIN o) \cup {k} |-> IF f = k THEN v ELSE o[f]] :
                   o \in rest, v \in vals[k] }

\* ------------------------------------------------------------------------
\* Errors
\* ------------------------------------------------------------------------
\* an Error object: its class and its message, as the parts it is built from
Err(msg) == [name |-> "Error", message |-> msg]
TypeErr(msg) == [name |-> "TypeError", message |-> msg]
NoError == [name |-> "none", message |-> <<>>]

\* reading a property of `undefined`
UndefinedRead(prop) ==
    TypeErr(<<"Cannot read properties of undefined (reading '", prop, "')">>)

\* ------------------------------------------------------------------------
\* The tools of the TOOLS registry and their zod schemas
\* ------------------------------------------------------------------------
ToolsNames == {"calculate-sum", "get-weather"}

Weathers == {"Sunny", "Cloudy", "Rainy"}

NoParsed == [ok |-> FALSE, value |-> NoArgs, error |-> NoError]
Parsed(v) == [ok |-> TRUE, value |-> v, error |-> NoError]
ParseFailed(e) == [ok |-> FALSE, value |-> NoArgs, error |-> e]

\* z.object({...}).parse(arguments): throws a ZodError (an Error) when the
\* payload is no object or a field is missing or of the wrong type; keeps the
\* declared fields only
ZodParseObject(fields, type, hasArgs, args) ==
    IF ~hasArgs THEN ParseFailed(Err(<<"Required">>))
    ELSE IF \E k \in fields : k \notin DOMAIN args
    THEN ParseFailed(Err(<<"Required">>))
    ELSE IF \E k \in fields : args[k].t # type
    THEN ParseFailed(Err(<<"Expected ", type>>))
    ELSE Parsed([k \in fields |-> args[k]])

inputSchemaParse(name, hasArgs, args) ==
    CASE name = "calculate-sum" -> ZodParseObject({"a", "b"}, "number", hasArgs, args)
      [] name = "get-weather"   -> ZodParseObject({"city"}, "string", hasArgs, args)
      [] OTHER ->
           \* tool.inputSchema is undefined for an inherited property
           ParseFailed(UndefinedRead("parse"))

\* handler of calculate-sum
calculate_sum(args) ==
    [content |-> <<[type |-> "text", text |-> <<ToString(args["a"].n + args["b"].n)>>]>>]

\* handler of get-weather, for the weather it draws
get_weather(args, weather) ==
    [content |-> <<[type |-> "text",
                    text |-> <<"The weather in ", args["city"].s, " is ", weather>>]>>]

\* ------------------------------------------------------------------------
\* Property lookup on an object literal: TOOLS[toolName], exampleToolHandlers[toolName]
\* ------------------------------------------------------------------------
\* Names every object literal inherits from Object.prototype: a function
\* (constructor) and a value that is not callable (__proto__).
InheritedFunctions == {"constructor"}
InheritedObjects == {"__proto__"}

\* what obj[name] evaluates to for an object literal with the keys `own`
PropertyLookup(own, name) ==
    IF name \in own THEN "own"
    ELSE IF name \in InheritedFunctions THEN "inheritedFunction"
    ELSE IF name \in InheritedObjects THEN "inheritedObject"
    ELSE "undefined"

\* ------------------------------------------------------------------------
\* The example tools: declared input schemas (JSON Schema)
\* ------------------------------------------------------------------------
ExampleNames ==
    {"get_resources", "get_resource", "create_resource",
     "update_resource", "delete_resource", "search_resources"}

StatusEnum == {"active", "inactive", "pending", "archived"}

\* required: [...] of each tool
Required(name) ==
    CASE name = "get_resources"    -> {}
      [] name = "get_resource"     -> {"resourceId"}
      [] name = "create_resource"  -> {"name"}
      [] name = "update_resource"  -> {"resourceId"}
      [] name = "delete_resource"  -> {"resourceId", "confirm"}
      [] name = "search_resources" -> {"query"}

\* properties: {...} of each tool
Properties(name) ==
    CASE name = "get_resources"    -> {"status", "limit", "offset"}
      [] name = "get_resource"     -> {"resourceId"}
      [] name = "create_resource"  ->
           {"name", "description", "status", "priority", "tags", "metadata"}
      [] name = "update_resource"  ->
           {"resourceId", "name", "description", "status", "priority", "tags", "metadata"}
      [] name = "delete_resource"  -> {"resourceId", "confirm"}
      [] name = "search_resources" -> {"query", "tags", "status"}

\* whether value v has the type (and enum) the schemas declare for property k
PropertyOk(k, v) ==
    CASE k \in {"resourceId", "name", "description", "query"} -> v.t = "string"
      [] k = "status"  -> v.t = "string" /\ v.s \in StatusEnum
      [] k \in {"limit", "offset"} -> v.t = "number"
      [] k = "priority" -> v.t = "number" /\ v.n \in 1..4
      [] k = "confirm" -> v.t = "boolean"
      [] k = "tags"    -> v.t = "array"
      [] OTHER         -> TRUE

\* the payload satisfies the inputSchema the tool declares
SchemaValid(name, hasArgs, args) ==
    /\ hasArgs
    /\ Required(name) \subseteq DOMAIN args
    /\ \A k \in (DOMAIN args) \cap Properties(name) : PropertyOk(k, args[k])

\* ------------------------------------------------------------------------
\* ExampleService: the calls the handlers make and what they answer
\* ------------------------------------------------------------------------
\* one call of an ExampleService method: its identifier or name argument
\* and its data argument (hasData is FALSE when that argument is undefined)
Call(method, id, data, hasData) ==
    [method |-> method, id |-> id, data |-> data, hasData |-> hasData]

NoCall == Call("none", Undef, NoArgs, FALSE)

\* `${value}` and value.toString()
ToStr(v) ==
    CASE v.t = "string"  -> v.s
      [] v.t = "number"  -> ToString(v.n)
      [] v.t = "boolean" -> IF v.n = 1 THEN "true" ELSE "false"
      [] OTHER           -> v.t

\* encodeURIComponent on the names of the model: only the space is escaped
encodeURIComponent(str) ==
    IF str = "red widget" THEN "red%20widget" ELSE str

\* params.append for the filters of getResources that are truthy
FilterParams(hasFilters, filters) ==
    IF ~hasFilters THEN <<>>
    ELSE (IF Truthy(Get(filters, "status"))
          THEN << <<"status", ToStr(filters["status"])>> >> ELSE <<>>)
         \o (IF Truthy(Get(filters, "limit"))
             THEN << <<"limit", ToStr(filters["limit"])>> >> ELSE <<>>)
         \o (IF Truthy(Get(filters, "offset"))
             THEN << <<"offset", ToStr(filters["offset"])>> >> ELSE <<>>)

\* the request the method's callback hands to this.client
ServiceRequest(call) ==
    CASE call.method = "getResources" ->
           [verb |-> "GET", path |-> <<"/resources">>,
            query |-> FilterParams(call.hasData, call.data),
            hasBody |-> FALSE, body |-> NoArgs]
      [] call.method = "getResource" ->
           [verb |-> "GET", path |-> <<"/resources/", ToStr(call.id)>>,
            query |-> <<>>, hasBody |-> FALSE, body |-> NoArgs]
      [] call.method = "createResource" ->
           [verb |-> "POST", path |-> <<"/resources">>,
            query |-> <<>>, hasBody |-> TRUE, body |-> call.data]
      [] call.method = "updateResource" ->
           [verb |-> "PUT", path |-> <<"/resources/", ToStr(call.id)>>,
            query |-> <<>>, hasBody |-> TRUE, body |-> call.data]
      [] call.method = "deleteResource" ->
           [verb |-> "DELETE", path |-> <<"/resources/", ToStr(call.id)>>,
            query |-> <<>>, hasBody |-> FALSE, body |-> NoArgs]
      [] call.method = "searchResourcesByName" ->
           [verb |-> "GET", path |-> <<"/resources/search">>,
            query |-> << <<"name", encodeURIComponent(ToStr(call.id))>> >>,
            hasBody |-> FALSE, body |-> NoArgs]

\* ExampleResource values the upstream answers with
Resources ==
    { [id |-> "r1", status |-> "active",   tags |-> <<"red">>],
      [id |-> "r2", status |-> "inactive", tags |-> <<"red", "blue">>],
      [id |-> "r3", status |-> "active",   tags |-> <<>>],
      [id |-> "r4", status |-> "inactive", tags |-> <<"blue">>] }

NoResource == [id |-> "", status |-> "", tags |-> <<>>]

ResourceLists == UNION { [1..n -> Resources] : n \in 0..MaxResults }

UpstreamError == Err(<<"Request failed with status code 500">>)

\* what awaiting a service method gives: its value, or an Error thrown
ServiceResponses(method) ==
    { [ok |-> FALSE, list |-> <<>>, resource |-> NoResource, error |-> UpstreamError] }
    \cup
    CASE method \in {"getResources", "searchResourcesByName"} ->
           { [ok |-> TRUE, list |-> l, resource |-> NoResource, error |-> NoError] :
                 l \in ResourceLists }
      [] method \in {"getResource", "createResource", "updateResource"} ->
           { [ok |-> TRUE, list |-> <<>>, resource |-> r, error |-> NoError] :
                 r \in Resources }
      [] OTHER ->
           { [ok |-> TRUE, list |-> <<>>, resource |-> NoResource, error |-> NoError] }

\* ------------------------------------------------------------------------
\* The example tool handlers
\* ------------------------------------------------------------------------
\* what a handler does up to its first await: throw, or call the service
Throw(e) == [kind |-> "throw", error |-> e, call |-> NoCall]
Await(c) == [kind |-> "await", error |-> NoError, call |-> c]

\* what a handler settles with
NoResult == [tool |-> "none"]
Return(v) == [kind |-> "return", error |-> NoError, value |-> v]
Reject(e) == [kind |-> "throw", error |-> e, value |-> NoResult]

\* throw new Error(`Failed to ...: ${error.message}`)
Wrap(prefix, e) == Err(<<prefix>> \o e.message)

Prefix(name) ==
    CASE name = "get_resources"    -> "Failed to get resources: "
      [] name = "get_resource"     -> "Failed to get resource: "
      [] name = "create_resource"  -> "Failed to create resource: "
      [] name = "update_resource"  -> "Failed to update resource: "
      [] name = "delete_resource"  -> "Failed to delete resource: "
      [] name = "search_resources" -> "Failed to search resources: "

\* The catch block of a handler for the error e thrown in its try block.
\* The console.error of four handlers reads args.resourceId or args.query
\* first, which throws itself when args is undefined.
Catch(name, hasArgs, e) ==
    IF ~hasArgs /\ name \in {"get_resource", "update_resource", "delete_resource"}
    THEN UndefinedRead("resourceId")
    ELSE IF ~hasArgs /\ name = "search_resources"
    THEN UndefinedRead("query")
    ELSE Wrap(Prefix(name), e)

get_resources_start(hasArgs, args) ==
    Await(Call("getResources", Undef, args, hasArgs))

\* mutant: only an absent identifier is refused, an empty one is passed on
get_resource_start_AcceptsEmpty(hasArgs, args) ==
    IF ~hasArgs
    THEN Throw(Catch("get_resource", hasArgs, UndefinedRead("resourceId")))
    ELSE IF Get(args, "resourceId") = Undef
    THEN Throw(Catch("get_resource", hasArgs, Err(<<"resourceId is required">>)))
    ELSE Await(Call("getResource", Get(args, "resourceId"), NoArgs, FALSE))

get_resource_start(hasArgs, args) ==
    IF ~hasArgs
    THEN Throw(Catch("get_resource", hasArgs, UndefinedRead("resourceId")))
    ELSE IF ~Truthy(Get(args, "resourceId"))
    THEN Throw(Catch("get_resource", hasArgs, Err(<<"resourceId is required">>)))
    ELSE Await(Call("getResource", Get(args, "resourceId"), NoArgs, FALSE))

create_resource_start(hasArgs, args) ==
    IF ~hasArgs
    THEN Throw(Catch("create_resource", hasArgs, UndefinedRead("name")))
    ELSE IF ~Truthy(Get(args, "name"))
    THEN Throw(Catch("create_resource", hasArgs, Err(<<"name is required">>)))
    ELSE Await(Call("createResource", Undef, args, TRUE))

\* mutant: the whole argument object is forwarded as the update data
update_resource_start_ForwardsAll(hasArgs, args) ==
    IF ~hasArgs
    THEN Throw(Catch("update_resource", hasArgs, UndefinedRead("resourceId")))
    ELSE IF ~Truthy(Get(args, "resourceId"))
    THEN Throw(Catch("update_resource", hasArgs, Err(<<"resourceId is required">>)))
    ELSE Await(Call("updateResource", Get(args, "resourceId"), args, TRUE))

update_resource_start(hasArgs, args) ==
    IF ~hasArgs
    THEN Throw(Catch("update_resource", hasArgs, UndefinedRead("resourceId")))
    ELSE IF ~Truthy(Get(args, "resourceId"))
    THEN Throw(Catch("update_resource", hasArgs, Err(<<"resourceId is required">>)))
    ELSE Await(Call("updateResource", Get(args, "resourceId"),
                    Rest(args, "resourceId"), TRUE))

delete_resource_start(hasArgs, args) ==
    IF ~hasArgs
    THEN Throw(Catch("delete_resource", hasArgs, UndefinedRead("resourceId")))
    ELSE IF ~Truthy(Get(args, "resourceId"))
    THEN Throw(Catch("delete_resource", hasArgs, Err(<<"resourceId is required">>)))
    ELSE IF ~Truthy(Get(args, "confirm"))
    THEN Throw(Catch("delete_resource", hasArgs,
                     Err(<<"Deletion must be confirmed by setting confirm=true">>)))
    ELSE Await(Call("deleteResource", Get(args, "resourceId"), NoArgs, FALSE))

search_resources_start(hasArgs, args) ==
    IF ~hasArgs
    THEN Throw(Catch("search_resources", hasArgs, UndefinedRead("query")))
    ELSE IF ~Truthy(Get(args, "query"))
    THEN Throw(Catch("search_resources", hasArgs, Err(<<"query is required">>)))
    ELSE Await(Call("searchResourcesByName", Get(args, "query"), NoArgs, FALSE))

HandlerStart(name, hasArgs, args) ==
    CASE name = "get_resources"    -> get_resources_start(hasArgs, args)
      [] name = "get_resource"     -> get_resource_start(hasArgs, args)
      [] name = "create_resource"  -> create_resource_start(hasArgs, args)
      [] name = "update_resource"  -> update_resource_start(hasArgs, args)
      [] name = "delete_resource"  -> delete_resource_start(hasArgs, args)
      [] name = "search_resources" -> search_resources_start(hasArgs, args)

\* filteredResources.filter(r => r.status === args.status)
RECURSIVE FilterByStatus(_, _)
FilterByStatus(resources, status) ==
    IF resources = <<>> THEN <<>>
    ELSE LET r == Head(resources)
             kept == FilterByStatus(Tail(resources), status)
         IN  IF status.t = "string" /\ r.status = status.s
             THEN <<r>> \o kept
             ELSE kept

\* mutant: every tag of the resource must be among the tags asked for
SomeTagIncluded_Every(r, tags) ==
    \A i \in 1..Len(r.tags) : \E j \in 1..Len(tags) : tags[j] = r.tags[i]

\* r.tags.some(tag => args.tags.includes(tag))
SomeTagIncluded(r, tags) ==
    \E i \in 1..Len(r.tags) : \E j \in 1..Len(tags) : tags[j] = r.tags[i]

\* filteredResources.filter(r => r.tags.some(...))
RECURSIVE FilterByTags(_, _)
FilterByTags(resources, tags) ==
    IF resources = <<>> THEN <<>>
    ELSE LET r == Head(resources)
             kept == FilterByTags(Tail(resources), tags)
         IN  IF SomeTagIncluded(r, tags) THEN <<r>> \o kept ELSE kept

\* the narrowing search_resources applies to what the service returned
\* (the payloads of the model give tags as an array or not at all)
FilterResources(resources, args) ==
    LET byStatus == IF Truthy(Get(args, "status"))
                    THEN FilterByStatus(resources, Get(args, "status"))
                    ELSE resources
    IN  IF Truthy(Get(args, "tags")) /\ Len(Get(args, "tags").a) > 0
        THEN FilterByTags(byStatus, Get(args, "tags").a)
        ELSE byStatus

\* what a handler does once the service call it awaits has settled
HandlerFinish(name, hasArgs, args, resp) ==
    IF ~resp.ok THEN Reject(Catch(name, hasArgs, resp.error))
    ELSE
    CASE name = "get_resources" ->
           Return([tool |-> name, resources |-> resp.list, count |-> Len(resp.list),
                   hasFilters |-> hasArgs, filters |-> args])
      [] name = "get_resource" ->
           Return([tool |-> name, resource |-> resp.resource])
      [] name = "create_resource" ->
           Return([tool |-> name,
                   message |-> <<"Resource created successfully with ID: ", resp.resource.id>>,
                   resource |-> resp.resource])
      [] name = "update_resource" ->
           Return([tool |-> name,
                   message |-> <<"Resource ", ToStr(Get(args, "resourceId")), " updated successfully">>,
                   resource |-> resp.resource])
      [] name = "delete_resource" ->
           Return([tool |-> name,
                   message |-> <<"Resource ", ToStr(Get(args, "resourceId")), " deleted successfully">>])
      [] name = "search_resources" ->
           LET filtered == FilterResources(resp.list, args)
           IN  Return([tool |-> name, resources |-> filtered, count |-> Len(filtered),
                       query |-> Get(args, "query"),
                       filters |-> [tags |-> Get(args, "tags"), status |-> Get(args, "status")]])

\* ------------------------------------------------------------------------
\* Tool-call dispatch: requests and results
\* ------------------------------------------------------------------------
NoOutcome == [kind |-> "none", code |-> "", message |-> <<>>, result |-> NoResult]

\* throw new McpError(code, message): a structured protocol error
McpError(code, msg) ==
    [kind |-> "mcpError", code |-> code, message |-> msg, result |-> NoResult]

\* return { content: [{ type: "text", text: `Error: ${message}` }], isError: true }
ErrorEnvelope(msg) ==
    [kind |-> "errorEnvelope", code |-> "", message |-> <<"Error: ">> \o msg,
     result |-> NoResult]

\* the content envelope of a successful call; `result` is what the handler
\* returned (the exampleToolHandlers dispatcher sends it as JSON text)
Success(result) ==
    [kind |-> "success", code |-> "", message |-> <<>>, result |-> result]

\* a thrown value that reaches the transport as it was thrown
Thrown(e) ==
    [kind |-> "thrown", code |-> "", message |-> e.message, result |-> NoResult]

\* catch of the TOOLS dispatcher: every Error becomes InvalidParams
ToolsCatch(e) ==
    IF e.name \in {"Error", "TypeError"}
    THEN McpError("InvalidParams", <<"Invalid arguments: ">> \o e.message)
    ELSE Thrown(e)

\* mutant: the catch rethrows what it caught
ExampleCatch_Rethrows(e) == Thrown(e)

\* mutant: the catch reports what it caught as the TOOLS dispatcher does
ExampleCatch_AsInvalidParams(e) ==
    McpError("InvalidParams", <<"Invalid arguments: ">> \o e.message)

\* catch of the exampleToolHandlers dispatcher for an error that is no McpError
ExampleCatch(e) == ErrorEnvelope(e.message)

NoReq == [name |-> "", hasArgs |-> FALSE, args |-> NoArgs, input |-> NoArgs]

Request(name, hasArgs, args) ==
    [name |-> name, hasArgs |-> hasArgs, args |-> args, input |-> NoArgs]

UnregisteredNames == {"no_such_tool"} \cup InheritedFunctions \cup InheritedObjects

\* the argument payloads the model sends to each tool
ArgSets(name) ==
    CASE name = "calculate-sum" ->
           Objects({"a", "b"},
                   [a |-> {Num(1), Str("1")}, b |-> {Num(2)}])
      [] name = "get-weather" ->
           Objects({"city"}, [city |-> {Str(""), Str("Paris"), Num(5)}])
      [] name = "get_resources" ->
           Objects({"status", "limit"},
                   [status |-> {Str("active"), Str("")},
                    limit |-> {Num(0), Num(10), Str("abc")}])
      [] name = "get_resource" ->
           Objects({"resourceId"}, [resourceId |-> {Str(""), Str("r1"), Num(7)}])
      [] name = "create_resource" ->
           Objects({"name", "status"},
                   [name |-> {Str(""), Str("new")}, status |-> {Str("bogus")}])
      [] name = "update_resource" ->
           Objects({"resourceId", "name", "status"},
                   [resourceId |-> {Str(""), Str("r1")},
                    name |-> {Str("new")},
                    status |-> {Str("active")}])
      [] name = "delete_resource" ->
           Objects({"resourceId", "confirm"},
                   [resourceId |-> {Str(""), Str("r1")},
                    confirm |-> {Bool(FALSE), Bool(TRUE), Str("false")}])
      [] name = "search_resources" ->
           Objects({"query", "status", "tags"},
                   [query |-> {Str(""), Str("widget"), Str("red widget")},
                    status |-> {Str(""), Str("active"), Str("inactive")},
                    tags |-> {Arr(<<>>), Arr(<<"red">>), Arr(<<"blue", "green">>)}])
      [] OTHER -> Objects({"a"}, [a |-> {Num(1)}])

Registry(v) == IF v = "tools" THEN ToolsNames ELSE ExampleNames

\* ------------------------------------------------------------------------
\* Resources (the server that registers TOOLS also serves RESOURCES)
\* ------------------------------------------------------------------------
\* Object.values(RESOURCES), in the order of the object literal
ResourceKeys == <<"system-info", "app-config">>

\* RESOURCES[key].uri
ResourceUri(key) == IF key = "system-info" THEN "system://info" ELSE "config://app"

\* the URIs the model asks for: the two registered ones, a key of RESOURCES,
\* another spelling, a name Object.prototype has, and an unknown one
Uris ==
    {"system://info", "config://app", "app-config", "CONFIG://APP", "constructor",
     "system://nope"}

\* process.env.NODE_ENV, "" when it is not set
NodeEnvs == {"", "production"}

\* RESOURCES[key].handler()
ResourceHandler(key, nodeEnv) ==
    [tool |-> "resource",
     contents |-> << [uri |-> ResourceUri(key),
                      mimeType |-> "application/json",
                      text |-> IF key = "system-info"
                               THEN <<"platform", "nodeVersion", "uptime">>
                               ELSE <<"env", IF nodeEnv = "" THEN "development" ELSE nodeEnv,
                                      "port">>] >>]

\* mutant: the resource is looked up by its key in RESOURCES
FindResource_ByKey(uri) ==
    LET hits == {i \in 1..Len(ResourceKeys) : ResourceKeys[i] = uri}
    IN  IF hits = {} THEN 0 ELSE CHOOSE i \in hits : \A j \in hits : i <= j

\* Object.values(RESOURCES).find((r) => r.uri === request.params.uri):
\* the index of the first resource with that uri, 0 for undefined
FindResource(uri) ==
    LET hits == {i \in 1..Len(ResourceKeys) : ResourceUri(ResourceKeys[i]) = uri}
    IN  IF hits = {} THEN 0 ELSE CHOOSE i \in hits : \A j \in hits : i <= j

NoRead == [pc |-> "none", uri |-> "", producers |-> <<>>, outcome |-> NoOutcome]

NoResp == [ok |-> FALSE, list |-> <<>>, resource |-> NoResource, error |-> NoError]

InitDispatch ==
    /\ dpc = "idle"
    /\ rd = NoRead
    /\ req = NoReq
    /\ stages = <<>>
    /\ handlerCalls = 0
    /\ svcCalls = <<>>
    /\ svcResp = NoResp
    /\ outcome = NoOutcome
    /\ errShapes = {}

\* the failure shapes handed over so far, with this outcome added
Shapes(o) ==
    IF o.kind \in {"mcpError", "errorEnvelope", "thrown"}
    THEN errShapes \cup {o.kind}
    ELSE errShapes

\* the dispatch ends with outcome o
Respond(o) ==
    /\ outcome' = o
    /\ dpc' = "done"
    /\ errShapes' = Shapes(o)

\* a tools/call request arrives: request.params.name, request.params.arguments
Receive(name, hasArgs, args) ==
    /\ dpc = "idle"
    /\ req' = Request(name, hasArgs, args)
    /\ dpc' = "lookup"
    /\ stages' = <<>>
    /\ handlerCalls' = 0
    /\ svcCalls' = <<>>
    /\ svcResp' = NoResp
    /\ outcome' = NoOutcome
    /\ rd' = NoRead
    /\ UNCHANGED <<variant, errShapes>>
    /\ UNCHANGED <<apiVars, bootVars>>

\* TOOLS dispatcher: const tool = TOOLS[toolName]; if (!tool) throw McpError
ToolsLookup ==
    /\ variant = "tools"
    /\ dpc = "lookup"
    /\ stages' = Append(stages, "lookup")
    /\ IF PropertyLookup(ToolsNames, req.name) = "undefined"
       THEN Respond(McpError("MethodNotFound", <<"Unknown tool: ", req.name>>))
       ELSE /\ dpc' = "validate"
            /\ UNCHANGED <<outcome, errShapes>>
    /\ UNCHANGED <<variant, req, handlerCalls, svcCalls, svcResp>>
    /\ UNCHANGED rd
    /\ UNCHANGED <<apiVars, bootVars>>

\* TOOLS dispatcher: const args = tool.inputSchema.parse(request.params.arguments)
ToolsValidate ==
    LET parsed == inputSchemaParse(req.name, req.hasArgs, req.args)
    IN  /\ variant = "tools"
        /\ dpc = "validate"
        /\ stages' = Append(stages, "validate")
        /\ IF parsed.ok
           THEN /\ req' = [req EXCEPT !.input = parsed.value]
                /\ dpc' = "execute"
                /\ UNCHANGED <<outcome, errShapes>>
           ELSE /\ Respond(ToolsCatch(parsed.error))
                /\ UNCHANGED req
        /\ UNCHANGED <<variant, handlerCalls, svcCalls, svcResp>>
        /\ UNCHANGED rd
        /\ UNCHANGED <<apiVars, bootVars>>

\* TOOLS dispatcher: return await tool.handler(args)
ToolsExecute(weather) ==
    /\ variant = "tools"
    /\ dpc = "execute"
    /\ stages' = Append(stages, "execute")
    /\ handlerCalls' = handlerCalls + 1
    /\ Respond(Success(IF req.name = "calculate-sum"
                       THEN calculate_sum(req.input)
                       ELSE get_weather(req.input, weather)))
    /\ UNCHANGED <<variant, req, svcCalls, svcResp>>
    /\ UNCHANGED rd
    /\ UNCHANGED <<apiVars, bootVars>>

\* exampleToolHandlers dispatcher: const handler = exampleToolHandlers[toolName];
\* if (!handler) throw McpError, which the catch rethrows
ExampleLookup ==
    /\ variant = "example"
    /\ dpc = "lookup"
    /\ stages' = Append(stages, "lookup")
    /\ IF PropertyLookup(ExampleNames, req.name) = "undefined"
       THEN Respond(McpError("MethodNotFound", <<"Unknown tool: ", req.name>>))
       ELSE /\ dpc' = "execute"
            /\ UNCHANGED <<outcome, errShapes>>
    /\ UNCHANGED <<variant, req, handlerCalls, svcCalls, svcResp>>
    /\ UNCHANGED rd
    /\ UNCHANGED <<apiVars, bootVars>>

\* exampleToolHandlers dispatcher: await handler(request.params.arguments),
\* up to the handler's first await
ExampleExecute ==
    LET found == PropertyLookup(ExampleNames, req.name)
        start == HandlerStart(req.name, req.hasArgs, req.args)
    IN  /\ variant = "example"
        /\ dpc = "execute"
        /\ stages' = Append(stages, "execute")
        /\ req' = [req EXCEPT !.input = req.args]
        /\ CASE found = "inheritedObject" ->
                  \* Object.prototype is not callable
                  /\ Respond(ExampleCatch(TypeErr(<<"handler is not a function">>)))
                  /\ UNCHANGED <<handlerCalls, svcCalls>>
             [] found = "inheritedFunction" ->
                  \* Object(arguments) returns the payload
                  /\ Respond(Success([tool |-> "Object", value |-> req.args]))
                  /\ UNCHANGED <<handlerCalls, svcCalls>>
             [] OTHER ->
                  /\ handlerCalls' = handlerCalls + 1
                  /\ IF start.kind = "throw"
                     THEN /\ Respond(ExampleCatch(start.error))
                          /\ UNCHANGED svcCalls
                     ELSE /\ svcCalls' = Append(svcCalls, start.call)
                          /\ dpc' = "service"
                          /\ UNCHANGED <<outcome, errShapes>>
        /\ UNCHANGED <<variant, svcResp>>
        /\ UNCHANGED rd
        /\ UNCHANGED <<apiVars, bootVars>>

\* the awaited ExampleService call settles; the handler and the dispatcher finish
ExampleServiceReturn(resp) ==
    LET fin == HandlerFinish(req.name, req.hasArgs, req.args, resp)
    IN  /\ variant = "example"
        /\ dpc = "service"
        /\ Respond(IF fin.kind = "return"
                   THEN Success(fin.value)
                   ELSE ExampleCatch(fin.error))
        /\ svcResp' = resp
        /\ UNCHANGED <<variant, req, stages, handlerCalls, svcCalls>>
        /\ UNCHANGED rd
        /\ UNCHANGED <<apiVars, bootVars>>

\* ReadResourceRequestSchema handler
ReadResource(uri, nodeEnv) ==
    LET found == FindResource(uri)
    IN  /\ variant = "tools"
        /\ dpc = "idle"
        /\ rd' = IF found = 0
                  THEN [pc |-> "done", uri |-> uri, producers |-> <<>>,
                        outcome |-> McpError("InvalidRequest",
                                             <<"Resource not found: ", uri>>)]
                  ELSE [pc |-> "done", uri |-> uri,
                        producers |-> <<ResourceKeys[found]>>,
                        outcome |-> Success(ResourceHandler(ResourceKeys[found], nodeEnv))]
        /\ UNCHANGED <<variant, dpc, req, stages, handlerCalls, svcCalls, svcResp,
                       outcome, errShapes>>
        /\ UNCHANGED <<apiVars, bootVars>>

\* the response is sent; the server waits for the next request
Reset ==
    /\ dpc = "done"
    /\ dpc' = "idle"
    /\ req' = NoReq
    /\ stages' = <<>>
    /\ handlerCalls' = 0
    /\ svcCalls' = <<>>
    /\ svcResp' = NoResp
    /\ outcome' = NoOutcome
    /\ UNCHANGED <<variant, errShapes>>
    /\ UNCHANGED rd
    /\ UNCHANGED <<apiVars, bootVars>>

NextDispatch ==
    \/ \E name \in Registry(variant) \cup UnregisteredNames :
         \E args \in ArgSets(name) : \E hasArgs \in BOOLEAN :
            /\ (~hasArgs => args = NoArgs)
            /\ Receive(name, hasArgs, args)
    \/ ToolsLookup
    \/ ToolsValidate
    \/ \E w \in Weathers : ToolsExecute(w)
    \/ ExampleLookup
    \/ ExampleExecute
    \/ /\ dpc = "service"
       /\ \E resp \in ServiceResponses(svcCalls[Len(svcCalls)].method) :
             ExampleServiceReturn(resp)
    \/ \E uri \in Uris, e \in NodeEnvs : ReadResource(uri, e)
    \/ Reset

\* ------------------------------------------------------------------------
\* Startup: command line, environment, configuration, ExampleService
\* ------------------------------------------------------------------------
\* A command-line argument is kept as its pieces, every "=" a piece of its
\* own, so that split('=') has something to split.
EnvFlag == <<"--env">>

Pair(key, value) == <<key, "=">> \o value

\* process.argv.slice(2) in the runs of the model
ArgvChoices ==
    { <<>>,
      <<EnvFlag, Pair("API_KEY", <<"cli-key">>)>>,
      <<EnvFlag, Pair("API_KEY", <<"abc", "=", "=">>)>>,
      <<EnvFlag, Pair("API_KEY", <<>>)>>,
      <<EnvFlag, Pair("API_KEY", <<"cli-key">>), EnvFlag, Pair("API_KEY", <<"cli-key-2">>)>>,
      <<EnvFlag, Pair("SERVICE_URL", <<"https://cli/api?v", "=", "1">>)>>,
      <<EnvFlag, Pair("SERVICE_TIMEOUT", <<"5000">>), EnvFlag, Pair("DEBUG", <<"TRUE">>)>>,
      <<EnvFlag, Pair("LOG_LEVEL", <<"debug">>), EnvFlag>>,
      <<<<"--verbose">>, Pair("API_KEY", <<"cli-key">>)>>,
      <<EnvFlag, <<"API_KEY">>>> }

\* process.env after dotenv.config(), as the variables that are set
EnvChoices ==
    { <<>>,
      [k \in {"API_KEY"} |-> "env-key"],
      [k \in {"API_KEY"} |-> ""],
      [k \in {"API_KEY", "SERVICE_URL", "SERVICE_TIMEOUT", "DEBUG", "LOG_LEVEL",
              "API_BASE_URL", "CACHE_TTL_SECONDS"} |->
          CASE k = "API_KEY"         -> "env-key"
            [] k = "SERVICE_URL"     -> "https://env"
            [] k = "SERVICE_TIMEOUT" -> "soon"
            [] k = "DEBUG"           -> "true"
            [] k = "LOG_LEVEL"       -> "warn"
            [] k = "API_BASE_URL"    -> "https://env"
            [] OTHER                 -> "60"] }

\* the apiKey arguments of the initialize calls other than the one of main
ApiKeys == {"", "key-a", "key-b"}

\* str.split('='): the texts between the "=" signs (each is one piece or empty)
RECURSIVE Split(_)
Split(pieces) ==
    IF \A i \in 1..Len(pieces) : pieces[i] # "="
    THEN << IF pieces = <<>> THEN "" ELSE pieces[1] >>
    ELSE LET i == CHOOSE j \in 1..Len(pieces) :
                      pieces[j] = "=" /\ \A h \in 1..(j - 1) : pieces[h] # "="
         IN  << IF i = 1 THEN "" ELSE pieces[1] >>
                 \o Split(SubSeq(pieces, i + 1, Len(pieces)))

\* const [key, value] = args[i + 1].split('=')
EnvPair(pieces) ==
    LET parts == Split(pieces)
    IN  [key |-> Str(parts[1]),
         value |-> IF Len(parts) >= 2 THEN Str(parts[2]) ELSE Undef]

\* obj.KEY for an object with string values
Lookup(obj, k) == IF k \in DOMAIN obj THEN Str(obj[k]) ELSE Undef

\* a || b
Or(a, b) == IF Truthy(a) THEN a ELSE b

\* envArgs.KEY || process.env.KEY || default
Resolve(cli, environment, k, default) ==
    Or(Or(Lookup(cli, k), Lookup(environment, k)), Str(default)).s

NaN == [t |-> "NaN", s |-> "", n |-> 0, a |-> <<>>]

\* parseInt(str, 10) on the texts of the model
ParseInt(str) ==
    CASE str = "30000" -> Num(30000)
      [] str = "5000"  -> Num(5000)
      [] str = "300"   -> Num(300)
      [] str = "60"    -> Num(60)
      [] OTHER         -> NaN

\* str.toLowerCase() on the texts of the model
ToLowerCase(str) == IF str \in {"TRUE", "True"} THEN "true" ELSE str

\* const configuration: Config = {...} of config.ts
Configuration(cli, environment) ==
    [apiKey |-> Resolve(cli, environment, "API_KEY", ""),
     serviceUrl |-> Resolve(cli, environment, "SERVICE_URL", "https://api.example.com"),
     serviceTimeout |-> ParseInt(Resolve(cli, environment, "SERVICE_TIMEOUT", "30000")),
     debug |-> ToLowerCase(Resolve(cli, environment, "DEBUG", "false")) = "true",
     logLevel |-> Resolve(cli, environment, "LOG_LEVEL", "info")]

\* export const config = {...} of the other configuration module: the
\* environment only (of its settings, the api ones)
PlainConfiguration(environment) ==
    [apiKey |-> Resolve(<<>>, environment, "API_KEY", ""),
     serviceUrl |-> Resolve(<<>>, environment, "API_BASE_URL", "https://api.example.com"),
     serviceTimeout |-> ParseInt(Resolve(<<>>, environment, "CACHE_TTL_SECONDS", "300")),
     debug |-> FALSE,
     logLevel |-> Resolve(<<>>, environment, "LOG_LEVEL", "info")]

NoConfiguration ==
    [apiKey |-> "", serviceUrl |-> "", serviceTimeout |-> NaN, debug |-> FALSE,
     logLevel |-> ""]

\* mutant: a missing required setting is not reported
validateConfig_AcceptsAll(config) == <<>>

\* validateConfig of config.ts: the message of the Error it throws, <<>> when
\* it returns
validateConfig(config) ==
    IF config.apiKey = ""
    THEN <<"Missing required environment variables: ", "apiKey">>
    ELSE <<>>

\* ExampleService.instance: undefined, or the object the constructor built
\* (id: which construction it is; apiKey: what its headers were built from)
NoInstance == [id |-> 0, apiKey |-> ""]

NoServiceCall == [op |-> "none", apiKey |-> "", returned |-> NoInstance, error |-> <<>>]

NotInitialized == <<"ExampleService not initialized. Call initialize() first.">>

\* mutant: every initialize builds a new instance
initialize_Rebuilds(inst, apiKey, count) == [id |-> count + 1, apiKey |-> apiKey]

\* ExampleService.initialize(apiKey): the instance afterwards
initialize(inst, apiKey, count) ==
    IF inst = NoInstance THEN [id |-> count + 1, apiKey |-> apiKey] ELSE inst

InitBoot ==
    /\ argi = 1
    /\ envArgs = <<>>
    /\ configuration = NoConfiguration
    /\ startupError = <<>>
    /\ warnings = <<>>
    /\ instance = NoInstance
    /\ built = 0
    /\ created = <<>>
    /\ svcLast = NoServiceCall
    /\ initKeys = <<>>

\* no process is starting
InitNoBoot ==
    /\ InitBoot
    /\ callsLeft = 0
    /\ cfg = "none"
    /\ spc = "none"
    /\ argv = <<>>
    /\ env = <<>>

\* one iteration of the loop over the command-line arguments
ParseArg ==
    /\ cfg = "cli"
    /\ spc = "args"
    /\ argi <= Len(argv)
    /\ IF argv[argi] = EnvFlag /\ argi + 1 <= Len(argv)
       THEN LET pair == EnvPair(argv[argi + 1])
            IN  /\ envArgs' = IF Truthy(pair.key) /\ Truthy(pair.value)
                              THEN [k \in (DOMAIN envArgs) \cup {pair.key.s} |->
                                       IF k = pair.key.s THEN pair.value.s ELSE envArgs[k]]
                              ELSE envArgs
                /\ argi' = argi + 2
       ELSE /\ argi' = argi + 1
            /\ UNCHANGED envArgs
    /\ UNCHANGED <<cfg, spc, argv, env, configuration, startupError, warnings,
                   instance, built, created, svcLast, initKeys, callsLeft>>
    /\ UNCHANGED <<apiVars, dispVars>>

\* the rest of config.ts: the configuration object and validateConfig
LoadConfiguration ==
    LET config == Configuration(envArgs, env)
        thrown == validateConfig(config)
    IN  /\ cfg = "cli"
        /\ spc = "args"
        /\ argi > Len(argv)
        /\ configuration' = config
        /\ startupError' = thrown
        /\ spc' = IF thrown = <<>> THEN "loaded" ELSE "failed"
        /\ UNCHANGED <<cfg, argv, env, argi, envArgs, warnings,
                       instance, built, created, svcLast, initKeys, callsLeft>>
        /\ UNCHANGED <<apiVars, dispVars>>

\* main() of index.ts up to `await server.connect(transport)`
Main ==
    LET inst == initialize(instance, configuration.apiKey, built)
    IN  /\ cfg = "cli"
        /\ spc = "loaded"
        /\ instance' = inst
        /\ built' = IF inst.id > built THEN inst.id ELSE built
        /\ svcLast' = [op |-> "initialize", apiKey |-> configuration.apiKey,
                       returned |-> inst, error |-> <<>>]
        /\ initKeys' = Append(initKeys, configuration.apiKey)
        /\ created' = created \o <<"service", "handlers", "server", "transport">>
        /\ spc' = "running"
        /\ UNCHANGED <<cfg, argv, env, argi, envArgs, configuration, startupError,
                       warnings, callsLeft>>
        /\ UNCHANGED <<apiVars, dispVars>>

\* ExampleService.initialize(apiKey), called by another module once the
\* class is loaded
Initialize(apiKey) ==
    LET inst == initialize(instance, apiKey, built)
    IN  /\ cfg = "cli"
        /\ spc \in {"loaded", "running"}
        /\ callsLeft > 0
        /\ callsLeft' = callsLeft - 1
        /\ instance' = inst
        /\ built' = IF inst.id > built THEN inst.id ELSE built
        /\ svcLast' = [op |-> "initialize", apiKey |-> apiKey,
                       returned |-> inst, error |-> <<>>]
        /\ initKeys' = Append(initKeys, apiKey)
        /\ UNCHANGED <<cfg, spc, argv, env, argi, envArgs, configuration,
                       startupError, warnings, created>>
        /\ UNCHANGED <<apiVars, dispVars>>

\* ExampleService.getInstance()
GetInstance ==
    /\ cfg = "cli"
    /\ spc \in {"loaded", "running"}
    /\ callsLeft > 0
    /\ callsLeft' = callsLeft - 1
    /\ svcLast' = IF instance = NoInstance
                  THEN [op |-> "getInstance", apiKey |-> "",
                        returned |-> NoInstance, error |-> NotInitialized]
                  ELSE [op |-> "getInstance", apiKey |-> "",
                        returned |-> instance, error |-> <<>>]
    /\ UNCHANGED <<cfg, spc, argv, env, argi, envArgs, configuration,
                   startupError, warnings, instance, built, created, initKeys>>
    /\ UNCHANGED <<apiVars, dispVars>>

\* the other configuration module is evaluated: process.env only
PlainLoad ==
    /\ cfg = "plain"
    /\ spc = "args"
    /\ configuration' = PlainConfiguration(env)
    /\ spc' = "loaded"
    /\ UNCHANGED <<cfg, argv, env, argi, envArgs, startupError, warnings,
                   instance, built, created, svcLast, initKeys, callsLeft>>
    /\ UNCHANGED <<apiVars, dispVars>>

\* a server built on that module calls its validateConfig(): console.warn
\* when the key is empty, and nothing is thrown
PlainValidate ==
    /\ cfg = "plain"
    /\ spc = "loaded"
    /\ warnings' = IF configuration.apiKey = ""
                   THEN Append(warnings, "API_KEY is not set. Some functionality may be limited.")
                   ELSE warnings
    /\ spc' = "validated"
    /\ UNCHANGED <<cfg, argv, env, argi, envArgs, configuration, startupError,
                   instance, built, created, svcLast, initKeys, callsLeft>>
    /\ UNCHANGED <<apiVars, dispVars>>

\* export const apiClient = new ApiClient(): the client is built with the
\* key and base URL of that configuration
PlainCreateClient ==
    /\ cfg = "plain"
    /\ spc = "validated"
    /\ created' = Append(created, "apiClient")
    /\ spc' = "running"
    /\ UNCHANGED <<cfg, argv, env, argi, envArgs, configuration, startupError,
                   warnings, instance, built, svcLast, initKeys, callsLeft>>
    /\ UNCHANGED <<apiVars, dispVars>>

NextStartup ==
    \/ ParseArg
    \/ LoadConfiguration
    \/ Main
    \/ \E k \in ApiKeys : Initialize(k)
    \/ GetInstance
    \/ PlainLoad
    \/ PlainValidate
    \/ PlainCreateClient

\* an ApiClient with the TTL its configuration gives; no server is dispatching
InitApiClient ==
    /\ InitApi
    /\ opsLeft = MaxOps
    /\ cacheTtlSeconds \in TtlChoices
    /\ InitDispatch
    /\ variant = "none"
    /\ InitNoBoot

\* one of the two servers of index.ts, waiting for a tool call
InitServer ==
    /\ InitDispatch
    /\ variant \in {"tools", "example"}
    /\ InitApi
    /\ opsLeft = 0
    /\ cacheTtlSeconds = 0
    /\ InitNoBoot

\* an ApiClient that caches, with room for one call more: a GET that stores, a
\* GET in flight while clearCache runs, and the GET made afterwards
InitClearRace ==
    /\ InitApi
    /\ opsLeft = MaxOps + 1
    /\ cacheTtlSeconds = TtlSeconds
    /\ InitDispatch
    /\ variant = "none"
    /\ InitNoBoot

\* a process starts with some command line and environment; the ApiClient and
\* the dispatcher are not in use yet
InitStartup ==
    /\ InitBoot
    /\ callsLeft = MaxOps
    /\ cfg \in {"cli", "plain"}
    /\ spc = "args"
    /\ argv \in ArgvChoices
    /\ cfg = "plain" => argv = <<>>
    /\ env \in EnvChoices
    /\ InitApi
    /\ opsLeft = 0
    /\ cacheTtlSeconds = 0
    /\ InitDispatch
    /\ variant = "none"

SpecApiClient == InitApiClient /\ [][NextApi]_vars

SpecStartup == InitStartup /\ [][NextStartup]_vars

SpecClearRace == InitClearRace /\ [][NextApi]_vars

SpecDispatch == InitServer /\ [][NextDispatch]_vars

\* ------------------------------------------------------------------------
\* Properties of the ApiClient
\* ------------------------------------------------------------------------

\* C1: a GET with useCache=true made right after a successful GET with
\* useCache=true of the same resolved URL, while now - stored timestamp is
\* below the TTL, returns the value the first call returned and issues no
\* network fetch.
C1_RepeatedGetServedFromCache ==
    /\ \A c \in Callers : calls[c].repeatOf = ""
    /\ (last.op = "get" /\ last.repeatOf # "") =>
          /\ last.outcome = "ok"
          /\ last.value = last.repeatOf
          /\ last.fetches = 0

C1_Witness ==
    /\ last.op = "get"
    /\ last.repeatOf \in Data
    /\ last.value = last.repeatOf
    /\ now > 0

\* C2: a GET with useCache=true that finds an entry older than the TTL window
\* issues a network fetch, and when it succeeds the entry of its URL holds the
\* fetched value and the time of the store.
C2_ExpiredEntryRefetched ==
    /\ \A c \in Callers :
          calls[c].lookup = "expired" =>
              calls[c].pc = "fetching" /\ calls[c].fetches = 1
    /\ (last.op = "get" /\ last.lookup = "expired") =>
          /\ last.fetches = 1
          /\ last.outcome = "ok" =>
                /\ lastStore.valid
                /\ CacheHas(cache, last.key)
                /\ cache[last.key] =
                       [data |-> last.value, timestamp |-> lastStore.at]

C2_Witness ==
    /\ last.op = "get"
    /\ last.lookup = "expired"
    /\ last.outcome = "ok"
    /\ cacheTtlSeconds > 0
    /\ cache[last.key].timestamp > 0

\* C3: a step of post (its start or its completion, successful or failed)
\* leaves the cache as it was, and every post issues one network request.
C3_PostStepLeavesCache ==
    (\E c \in Callers :
        /\ calls'[c] # calls[c]
        /\ calls[c].op = "post" \/ calls'[c].op = "post")
    => cache' = cache

C3_PostNeverTouchesCache ==
    /\ [][C3_PostStepLeavesCache]_vars
    /\ [](\A c \in Callers : calls[c].op = "post" => calls[c].fetches = 1)
    /\ [](last.op = "post" => last.fetches = 1)

C3_Witness ==
    /\ last.op = "post"
    /\ last.outcome = "ok"
    /\ CacheHas(cache, last.key)
    /\ cache[last.key].data # last.value

\* C4: right after clearCache() the cache is empty, and a GET made right
\* after it for a URL that was cached before the clear issues a network
\* fetch, whatever the age of the removed entry.
C4_ClearThenGetFetches ==
    /\ last.op = "clear" => cache = <<>>
    /\ \A c \in Callers :
          calls[c].afterClear => calls[c].pc = "fetching" /\ calls[c].fetches = 1
    /\ (last.op = "get" /\ last.afterClear) => last.fetches = 1

C4_Witness ==
    /\ last.op = "get"
    /\ last.afterClear
    /\ last.useCache
    /\ last.outcome = "ok"
    /\ now = 0
    /\ cacheTtlSeconds > 0

\* the entries of a parameter set that carry a value
NonEmptyEntries(params) ==
    SelectSeq(params, LAMBDA e : e[2].t = "string" /\ e[2].s # "")

\* C11: the cache key is the resolved URL, built from the entries that carry
\* a value only: parameter sets that differ only by omitted versus empty,
\* null or undefined entries give the same key, no key holds an empty value,
\* and a GET that follows, within the TTL, a GET whose parameters differed
\* that way is served from the entry that GET used.
C11_EmptyParamsShareCacheKey ==
    /\ \A e \in Endpoints : \A p, q \in ParamSets :
           NonEmptyEntries(p) = NonEmptyEntries(q) => buildUrl(e, p) = buildUrl(e, q)
    /\ \A k \in DOMAIN cache : \A i \in 1..Len(k.query) : k.query[i][2] # ""
    /\ \A c \in Callers : \A i \in 1..Len(calls[c].key.query) :
           calls[c].key.query[i][2] # ""
    /\ (last.op = "get" /\ last.mixed) =>
           /\ last.fetches = 0
           /\ last.outcome = "ok"
           /\ last.value = last.repeatOf
           /\ last.key \in DOMAIN cache
           /\ cache[last.key].data = last.value

C11_Witness ==
    /\ last.op = "get"
    /\ last.mixed
    /\ last.fetches = 0
    /\ last.key = [path |-> "/resources", query |-> <<>>]
    /\ lastStore.dropped = 0
    /\ DOMAIN cache = {last.key}

\* C12: a GET or POST whose upstream response has a status outside 200..299
\* fails with an error that carries that status code and the response's body
\* text, and returns no value.
C12_Non2xxFailsWithStatusAndBody ==
    ( /\ last.op \in {"get", "post"}
      /\ last.resp.net = "up"
      /\ (last.resp.status < 200 \/ last.resp.status > 299) ) =>
        /\ last.outcome = "fail"
        /\ last.value = ""
        /\ last.err.kind = "http"
        /\ last.err.status = last.resp.status
        /\ last.err.body = last.resp.body

C12_Witness ==
    /\ last.op = "post"
    /\ last.resp = [net |-> "up", status |-> 404, body |-> "<html>"]
    /\ last.outcome = "fail"
    /\ last.err = [kind |-> "http", status |-> 404, body |-> "<html>"]

\* C15: after a clearCache that ran while a cached GET was in flight, the
\* next cached GET of a URL that was cached when it ran misses the cache and
\* fetches: it is never served what a request issued before the clear brought.
C15_ClearDuringGetForcesRefetch ==
    (last.op = "get" /\ last.watched) =>
        /\ last.lookup # "fresh"
        /\ last.fetches = 1

\* C16: a step of a GET with useCache=false (its start or its completion,
\* successful or failed) leaves the cache as it was, and every such GET
\* issues a network fetch without looking at the cache, also when a fresh
\* entry for its URL exists.
C16_UncachedGetStepLeavesCache ==
    (\E c \in Callers :
        /\ calls'[c] # calls[c]
        /\ \/ calls[c].op = "get" /\ ~calls[c].useCache
           \/ calls'[c].op = "get" /\ ~calls'[c].useCache)
    => cache' = cache

C16_UncachedGetBypassesCache ==
    /\ [][C16_UncachedGetStepLeavesCache]_vars
    /\ [](\A c \in Callers :
             (calls[c].op = "get" /\ ~calls[c].useCache) =>
                 calls[c].fetches = 1 /\ calls[c].lookup = "skipped")
    /\ []((last.op = "get" /\ ~last.useCache) =>
             last.fetches = 1 /\ last.lookup = "skipped")

C16_Witness ==
    /\ last.op = "get"
    /\ ~last.useCache
    /\ last.fetches = 1
    /\ last.outcome = "ok"
    /\ CacheFresh(cache, last.key, now, cacheTtlSeconds)
    /\ cache[last.key].data # last.value

\* C17: the client never retries. A call in flight has issued exactly one
\* request; the step in which its request settles ends the call, with that
\* one request, whether it succeeded or failed; a finished get has issued one
\* request, or none when it was a cache hit, and a finished post exactly one.
C17_SettledRequestEndsCall ==
    \A c \in Callers :
        (calls[c].pc = "fetching" /\ calls'[c] # calls[c]) =>
            /\ calls'[c].pc = "idle"
            /\ last'.op = calls[c].op
            /\ last'.fetches = 1

C17_NoRetries ==
    /\ [][C17_SettledRequestEndsCall]_vars
    /\ [](\A c \in Callers : calls[c].pc = "fetching" => calls[c].fetches = 1)
    /\ [](last.op = "get" =>
             last.fetches = IF last.useCache /\ last.lookup = "fresh" THEN 0 ELSE 1)
    /\ [](last.op = "post" => last.fetches = 1)
    /\ [](last.outcome = "fail" => last.fetches = 1)

C17_Witness ==
    /\ last.op = "get"
    /\ last.outcome = "fail"
    /\ last.err.kind = "network"
    /\ last.fetches = 1
    /\ \A c \in Callers : calls[c].pc = "idle"

\* a step in which call slot c starts awaiting a fetch
Starts(c) == calls[c].pc = "idle" /\ calls'[c].pc = "fetching"

\* a step in which the fetch of call slot c settles and the call returns or throws
Settles(c) == calls[c].pc = "fetching" /\ calls'[c].pc = "idle"

\* a step in which a GET returns from the cache: a call is made and no slot awaits
Served == opsLeft' = opsLeft - 1 /\ calls' = calls

C25_GetStepServesBelowTtl ==
    /\ Served =>
          /\ last'.op = "get"
          /\ last'.useCache
          /\ last'.fetches = 0
          /\ CacheHas(cache, last'.key)
          /\ now - cache[last'.key].timestamp < cacheTtlSeconds * MsPerSecond
          /\ last'.value = cache[last'.key].data
          /\ cacheTtlSeconds # 0
    /\ \A c \in Callers :
          ( /\ Starts(c)
            /\ calls'[c].op = "get"
            /\ calls'[c].useCache
            /\ CacheHas(cache, calls'[c].key) ) =>
              /\ now - cache[calls'[c].key].timestamp >= cacheTtlSeconds * MsPerSecond
              /\ calls'[c].fetches = 1

\* C25: a GET is served from the cache only when the entry's age, now minus
\* its timestamp, is strictly below the TTL, and a GET with useCache=true that
\* finds an entry is served exactly then: at an age equal to the TTL it
\* fetches, and with a TTL of 0 no GET is served from the cache.
C25_ServedOnlyBelowTtl == [][C25_GetStepServesBelowTtl]_vars

C25_Witness ==
    \E c \in Callers :
        /\ calls[c].pc = "fetching"
        /\ calls[c].op = "get"
        /\ calls[c].useCache
        /\ calls[c].fetches = 1
        /\ cacheTtlSeconds > 0
        /\ CacheHas(cache, calls[c].key)
        /\ now - cache[calls[c].key].timestamp = cacheTtlSeconds * MsPerSecond

C26_StepKeepsEntries ==
    \/ last'.op = "clear" /\ cache' = <<>>
    \/ /\ DOMAIN cache \subseteq DOMAIN cache'
       /\ \A k \in DOMAIN cache :
             cache'[k] # cache[k] =>
                 /\ last'.op = "get"
                 /\ last'.useCache
                 /\ last'.key = k
                 /\ last'.outcome = "ok"
                 /\ last'.fetches = 1
                 /\ cache'[k] = [data |-> last'.value, timestamp |-> now]

\* C26: only clearCache removes entries: every step that is not a clearCache
\* keeps every key of the cache, and keeps each entry as it is, expired or
\* not, unless the step is a successful GET with useCache=true of that URL,
\* which overwrites it.  (The Map holds one entry per URL string.)
C26_OnlyClearRemoves == [][C26_StepKeepsEntries]_vars

C26_Witness ==
    /\ last.op = "post"
    /\ cacheTtlSeconds > 0
    /\ \E k \in DOMAIN cache :
          now - cache[k].timestamp >= cacheTtlSeconds * MsPerSecond

C27_GetStepsAreOwn ==
    /\ \A c \in Callers :
          (Starts(c) /\ calls'[c].op = "get") => calls'[c].fetches = 1
    /\ \A c \in Callers :
          (Settles(c) /\ calls[c].op = "get") =>
              /\ last'.key = calls[c].key
              /\ last'.fetches = 1
              /\ last'.resp \in Responses
              /\ last'.outcome \in {"ok", "fail"}
              /\ last'.outcome = "ok" =>
                     /\ ResponseOk(last'.resp)
                     /\ last'.value = last'.resp.body
              /\ last'.outcome = "fail" =>
                     \/ last'.resp.net = "down"
                     \/ ~ResponseOk(last'.resp)
                     \/ last'.resp.body \notin Data
              /\ \A d \in Callers \ {c} : calls'[d] = calls[d]

\* C27: GETs are not coalesced: every GET that is not served from the cache
\* issues a fetch of its own, also while another GET of the same URL is in
\* flight; when a fetch settles, only the call that issued it ends, with that
\* response's body as its value, and it fails only if its own response was a
\* failure; the other calls go on waiting for their own responses.
C27_ConcurrentGetsNotCoalesced == [][C27_GetStepsAreOwn]_vars

C27_Witness ==
    /\ calls["c2"].pc = "fetching"
    /\ calls["c2"].op = "get"
    /\ calls["c2"].useCache
    /\ calls["c2"].lookup = "absent"
    /\ calls["c2"].fetches = 1
    /\ calls["c1"].pc = "idle"
    /\ last.op = "get"
    /\ last.useCache
    /\ last.lookup = "absent"
    /\ last.key = calls["c2"].key
    /\ last.outcome = "ok"
    /\ CacheHas(cache, last.key)
    /\ cache[last.key].data = last.value

C28_FailedGetStepLeavesCache ==
    \A c \in Callers :
        /\ (Starts(c) /\ calls'[c].op = "get") => cache' = cache
        /\ (Settles(c) /\ calls[c].op = "get" /\ last'.outcome = "fail") => cache' = cache

\* C28: a GET that fails changes nothing in the cache, neither when it is
\* issued nor when its fetch fails (non-2xx status, network fault or
\* unparsable body): no entry is added, and an expired entry of its URL keeps
\* its value and timestamp.
C28_FailedGetLeavesCache == [][C28_FailedGetStepLeavesCache]_vars

C28_Witness ==
    /\ last.op = "get"
    /\ last.useCache
    /\ last.lookup = "expired"
    /\ last.outcome = "fail"
    /\ last.err.kind = "http"
    /\ cacheTtlSeconds > 0
    /\ CacheHas(cache, last.key)
    /\ now - cache[last.key].timestamp >= cacheTtlSeconds * MsPerSecond

\* C29: in every reachable state each cache entry holds the body of a
\* successful fetch that a GET with useCache=true made of exactly the URL
\* that is the entry's key, and its timestamp is not later than the current
\* time.
C29_EntriesComeFromOwnFetch ==
    \A k \in DOMAIN cache :
        /\ <<k, cache[k].data>> \in fetched
        /\ cache[k].timestamp <= now

C29_Witness ==
    /\ Cardinality(DOMAIN cache) = 2
    /\ \E k \in DOMAIN cache : cache[k].timestamp < now
    /\ Cardinality(fetched) = 2

\* ------------------------------------------------------------------------
\* Properties of the startup
\* ------------------------------------------------------------------------
\* the arguments that follow an --env on the command line, read left to right
RECURSIVE EnvArguments(_)
EnvArguments(args) ==
    IF Len(args) < 2 THEN <<>>
    ELSE IF Head(args) = EnvFlag
    THEN <<args[2]>> \o EnvArguments(SubSeq(args, 3, Len(args)))
    ELSE EnvArguments(Tail(args))

\* the VALUEs the command line gives key k: of every argument KEY=VALUE that
\* follows an --env, the text after the first "=", when it is not empty
CliValues(args, k) ==
    LET given == EnvArguments(args)
        idx == {i \in 1..Len(given) :
                   /\ Len(given[i]) >= 3
                   /\ given[i][1] = k
                   /\ given[i][2] = "="}
    IN  [i \in idx |-> SubSeq(given[i], 3, Len(given[i]))]

\* a text as pieces
AsPieces(str) == IF str = "" THEN <<>> ELSE <<str>>

\* a text of one piece
Text(pieces) == IF pieces = <<>> THEN "" ELSE pieces[1]

\* the text the precedence rule gives key k: the VALUE of the (last) --env
\* pair of k, else the environment variable when it is set and not empty,
\* else the default
Expected(k, default) ==
    LET cli == CliValues(argv, k)
    IN  IF DOMAIN cli # {}
        THEN cli[CHOOSE i \in DOMAIN cli : \A j \in DOMAIN cli : j <= i]
        ELSE IF k \in DOMAIN env /\ env[k] # ""
        THEN <<env[k]>>
        ELSE AsPieces(default)

ConfigurationBuilt == cfg = "cli" /\ spc \in {"loaded", "failed", "running"}

\* C22: every setting of config.ts has the value the precedence rule gives its
\* key: the VALUE of the --env KEY=VALUE pair when there is one, else the
\* environment variable, else the default (converted as the setting is:
\* parseInt for the timeout, the comparison with 'true' for debug).
C22_CliOverridesEnvOverridesDefault ==
    ConfigurationBuilt =>
        /\ AsPieces(configuration.apiKey) = Expected("API_KEY", "")
        /\ AsPieces(configuration.serviceUrl) =
               Expected("SERVICE_URL", "https://api.example.com")
        /\ configuration.serviceTimeout =
               ParseInt(Text(Expected("SERVICE_TIMEOUT", "30000")))
        /\ configuration.debug =
               (ToLowerCase(Text(Expected("DEBUG", "false"))) = "true")
        /\ AsPieces(configuration.logLevel) = Expected("LOG_LEVEL", "info")

MissingApiKey == <<"Missing required environment variables: ", "apiKey">>

ApiKeyWarning == <<"API_KEY is not set. Some functionality may be limited.">>

\* C23: with config.ts, an empty resolved API key ends the startup with the
\* error "Missing required environment variables: apiKey" and nothing is
\* created: no ExampleService, no handlers, no server; a startup that goes
\* on has a non-empty key.  With the other configuration module an empty
\* key only gives a warning, nothing is thrown and the startup goes on.
C23_MissingApiKeyFatalOrWarning ==
    /\ cfg = "cli" =>
          /\ (spc # "args" /\ configuration.apiKey = "") => spc = "failed"
          /\ spc = "failed" =>
                /\ configuration.apiKey = ""
                /\ startupError = MissingApiKey
                /\ created = <<>>
                /\ instance = NoInstance
                /\ built = 0
                /\ svcLast = NoServiceCall
          /\ spc # "failed" => startupError = <<>>
          /\ created # <<>> => spc = "running" /\ configuration.apiKey # ""
          /\ warnings = <<>>
    /\ cfg = "plain" =>
          /\ spc # "failed"
          /\ startupError = <<>>
          /\ spc \in {"validated", "running"} =>
                warnings = IF configuration.apiKey = "" THEN ApiKeyWarning ELSE <<>>
          /\ spc = "running" => created = <<"apiClient">>

C23_Witness ==
    /\ cfg = "cli"
    /\ spc = "failed"
    /\ argv = <<EnvFlag, Pair("LOG_LEVEL", <<"debug">>), EnvFlag>>
    /\ env = [k \in {"API_KEY"} |-> ""]
    /\ startupError = MissingApiKey
    /\ configuration.logLevel = "debug"

\* C30: ExampleService is a first-initializer-wins singleton: while no
\* initialize was called there is no instance and getInstance fails with the
\* 'not initialized' error; afterwards the instance is the one the first
\* initialize built, with that call's apiKey, no other was ever built, and
\* every initialize and getInstance returns it.
C30_FirstInitializerWins ==
    /\ initKeys = <<>> =>
          /\ instance = NoInstance
          /\ built = 0
          /\ svcLast.op = "getInstance" =>
                 /\ svcLast.error = NotInitialized
                 /\ svcLast.returned = NoInstance
    /\ initKeys # <<>> =>
          /\ built = 1
          /\ instance = [id |-> 1, apiKey |-> initKeys[1]]
          /\ svcLast.op \in {"initialize", "getInstance"}
          /\ svcLast.error = <<>>
          /\ svcLast.returned = instance

C30_Witness ==
    /\ Len(initKeys) >= 2
    /\ initKeys[2] # initKeys[1]
    /\ svcLast.op = "initialize"
    /\ svcLast.apiKey = "key-a"
    /\ svcLast.returned = instance
    /\ instance.apiKey = "env-key"

\* ------------------------------------------------------------------------
\* Properties of tool-call dispatch
\* ------------------------------------------------------------------------
Done == dpc = "done"

Registered == req.name \in Registry(variant)

\* C5: dispatching a name that is not registered ends in a "method not
\* found" error carrying that name, with no handler invoked and no schema
\* validation run.
C5_UnregisteredIsMethodNotFound ==
    (dpc # "idle" /\ ~Registered) =>
        /\ handlerCalls = 0
        /\ dpc \notin {"validate", "execute", "service"}
        /\ Done => /\ outcome.kind = "mcpError"
                   /\ outcome.code = "MethodNotFound"
                   /\ outcome.message = <<"Unknown tool: ", req.name>>

\* the payload fails the input schema the tool declares: the zod schema of a
\* TOOLS entry, the JSON Schema of an exampleTools entry
FailsDeclaredSchema ==
    IF variant = "tools"
    THEN ~inputSchemaParse(req.name, req.hasArgs, req.args).ok
    ELSE ~SchemaValid(req.name, req.hasArgs, req.args)

\* C6: dispatching a registered tool with a payload that fails its declared
\* input schema ends in an "invalid arguments" error and never invokes the
\* tool's handler.
C6_InvalidPayloadRejected ==
    (dpc # "idle" /\ Registered /\ FailsDeclaredSchema) =>
        /\ handlerCalls = 0
        /\ svcCalls = <<>>
        /\ Done => /\ outcome.kind = "mcpError"
                   /\ outcome.code = "InvalidParams"

C8_DeleteOnlyWhenConfirmedTrue ==
    (variant = "example" /\ req.name = "delete_resource" /\ handlerCalls > 0) =>
        /\ ( /\ req.hasArgs
             /\ Truthy(Get(req.args, "resourceId"))
             /\ Get(req.args, "confirm") \in {Undef, Bool(FALSE)} ) =>
               /\ svcCalls = <<>>
               /\ Done
               /\ outcome.kind = "errorEnvelope"
               /\ outcome.message =
                      <<"Error: ", "Failed to delete resource: ",
                        "Deletion must be confirmed by setting confirm=true">>
        /\ svcCalls # <<>> =>
               /\ Truthy(Get(req.args, "resourceId"))
               /\ Get(req.args, "confirm") = Bool(TRUE)

\* C9: update_resource with a non-empty resourceId calls updateResource once,
\* with the identifier as the path parameter and, as the body, exactly the
\* argument fields other than resourceId with their values unchanged.
C9_UpdateBodyOmitsResourceId ==
    ( /\ variant = "example"
      /\ req.name = "update_resource"
      /\ handlerCalls > 0
      /\ req.hasArgs
      /\ Truthy(Get(req.args, "resourceId")) ) =>
        /\ Len(svcCalls) = 1
        /\ LET call == svcCalls[1]
               sent == ServiceRequest(call)
           IN  /\ call.method = "updateResource"
               /\ call.id = req.args["resourceId"]
               /\ "resourceId" \notin DOMAIN call.data
               /\ DOMAIN call.data = (DOMAIN req.args) \ {"resourceId"}
               /\ \A k \in DOMAIN call.data : call.data[k] = req.args[k]
               /\ sent.verb = "PUT"
               /\ sent.path = <<"/resources/", req.args["resourceId"].s>>
               /\ sent.hasBody
               /\ sent.body = call.data

C9_Witness ==
    /\ variant = "example"
    /\ req.name = "update_resource"
    /\ Len(svcCalls) = 1
    /\ DOMAIN req.args = {"resourceId", "name", "status"}
    /\ svcCalls[1].data = [name |-> Str("new"), status |-> Str("active")]
    /\ Done
    /\ outcome.kind = "success"

\* the filters of a search as the claim words them: a status that is given
\* (a non-empty string), a tags list that is given and not empty
StatusGiven(args) == "status" \in DOMAIN args /\ args["status"].s # ""
TagsGiven(args) == "tags" \in DOMAIN args /\ Len(args["tags"].a) > 0

SearchMatch(r, args) ==
    /\ StatusGiven(args) => r.status = args["status"].s
    /\ TagsGiven(args) =>
          {r.tags[i] : i \in 1..Len(r.tags)}
             \cap {args["tags"].a[j] : j \in 1..Len(args["tags"].a)} # {}

\* C10: search_resources with a non-empty query, once the upstream search
\* has answered, returns exactly the upstream results that match the given
\* status and share a tag with the given tags, in upstream order, and a count
\* equal to their number.
C10_SearchNarrowsUpstreamResults ==
    ( /\ variant = "example"
      /\ req.name = "search_resources"
      /\ Done
      /\ req.hasArgs
      /\ Truthy(Get(req.args, "query"))
      /\ svcResp.ok ) =>
        /\ outcome.kind = "success"
        /\ LET up == svcResp.list
               out == outcome.result.resources
               idx == {i \in 1..Len(up) : SearchMatch(up[i], req.args)}
           IN  /\ Len(out) = Cardinality(idx)
               /\ outcome.result.count = Len(out)
               /\ \E f \in [1..Len(out) -> idx] :
                     /\ \A j, k \in 1..Len(out) : j < k => f[j] < f[k]
                     /\ \A k \in 1..Len(out) : out[k] = up[f[k]]

C10_Witness ==
    /\ variant = "example"
    /\ req.name = "search_resources"
    /\ Done
    /\ outcome.kind = "success"
    /\ Get(req.args, "tags") = Arr(<<"red">>)
    /\ "status" \notin DOMAIN req.args
    /\ Len(svcResp.list) = 2
    /\ svcResp.list[1].id = "r4"
    /\ svcResp.list[2].id = "r2"
    /\ outcome.result.count = 1
    /\ outcome.result.resources[1].id = "r2"

\* the kind of failure the caller is told: the code of a McpError, or a tool
\* result flagged isError, which is how a failure of the tool's execution is
\* reported
ErrorKind(o) ==
    CASE o.kind = "mcpError" /\ o.code = "MethodNotFound" -> "method not found"
      [] o.kind = "mcpError" /\ o.code = "InvalidParams"  -> "invalid arguments"
      [] o.kind = "errorEnvelope"                         -> "execution error"
      [] OTHER                                            -> "none"

Failed == Done /\ outcome.kind \notin {"success", "none"}

\* the error the invoked example handler rejected with
HandlerFailure ==
    IF svcCalls = <<>>
    THEN HandlerStart(req.name, req.hasArgs, req.args).error
    ELSE HandlerFinish(req.name, req.hasArgs, req.args, svcResp).error

\* m ends with the sequence tail
EndsWith(m, tail) ==
    /\ Len(m) >= Len(tail)
    /\ SubSeq(m, Len(m) - Len(tail) + 1, Len(m)) = tail

\* C13: when the arguments of a registered tool pass its declared schema and
\* the handler then fails, the failure is reported with kind "execution
\* error" and the handler's message; a payload that fails the schema is
\* reported with kind "invalid arguments", so the two differ by kind.
C13_HandlerFailureIsExecutionError ==
    /\ (Failed /\ Registered /\ handlerCalls > 0 /\ ~FailsDeclaredSchema) =>
           /\ ErrorKind(outcome) = "execution error"
           /\ variant = "example" => EndsWith(outcome.message, HandlerFailure.message)
    /\ (Failed /\ Registered /\ FailsDeclaredSchema) =>
           ErrorKind(outcome) = "invalid arguments"

\* C14: reading a URI that no registered resource has ends in a "resource
\* not found" error that names the URI and invokes no resource producer;
\* reading a registered URI invokes that resource's producer, and only it,
\* and returns its content.
C14_ReadResourceFindsByUri ==
    rd.pc = "done" =>
        IF rd.uri \in {"system://info", "config://app"}
        THEN LET key == IF rd.uri = "system://info" THEN "system-info" ELSE "app-config"
             IN  /\ rd.producers = <<key>>
                 /\ rd.outcome.kind = "success"
                 /\ \E e \in NodeEnvs : rd.outcome.result = ResourceHandler(key, e)
                 /\ rd.outcome.result.contents[1].uri = rd.uri
        ELSE /\ rd.producers = <<>>
             /\ rd.outcome.kind = "mcpError"
             /\ rd.outcome.code = "InvalidRequest"
             /\ rd.outcome.message = <<"Resource not found: ", rd.uri>>

C14_Witness ==
    /\ rd.pc = "done"
    /\ rd.uri = "app-config"
    /\ rd.producers = <<>>
    /\ rd.outcome.kind = "mcpError"

\* C18: a get_resources call that succeeds returns the upstream list, a
\* count equal to its length, and as filters exactly the status, limit and
\* offset values that were sent in the query of the upstream request.
C18_ListEchoesAppliedFilters ==
    ( /\ variant = "example"
      /\ req.name = "get_resources"
      /\ Done
      /\ outcome.kind = "success" ) =>
        LET res == outcome.result
            sent == ServiceRequest(svcCalls[1]).query
            echoed == IF res.hasFilters
                      THEN {<<k, ToStr(res.filters[k])>> : k \in DOMAIN res.filters}
                      ELSE {}
        IN  /\ Len(svcCalls) = 1
            /\ res.resources = svcResp.list
            /\ res.count = Len(res.resources)
            /\ echoed = {sent[i] : i \in 1..Len(sent)}

\* the field each example handler insists on
RequiredField(name) ==
    CASE name \in {"get_resource", "update_resource", "delete_resource"} -> "resourceId"
      [] name = "create_resource"  -> "name"
      [] name = "search_resources" -> "query"

PreconditionFailed ==
    /\ variant = "example"
    /\ Registered
    /\ req.hasArgs
    /\ handlerCalls > 0
    /\ svcCalls = <<>>
    /\ Done

PreconditionMessages ==
    {"resourceId is required", "name is required", "query is required",
     "Deletion must be confirmed by setting confirm=true"}

C21_HandlerFailureIsPrefixed ==
    (variant = "example" /\ Registered /\ handlerCalls > 0 /\ Failed) =>
        /\ HandlerFailure.message # <<>>
        /\ Head(HandlerFailure.message) = Prefix(req.name)
        /\ svcResp.error # NoError =>
               HandlerFailure.message = <<Prefix(req.name)>> \o svcResp.error.message
        /\ outcome.message = <<"Error: ">> \o HandlerFailure.message

\* C24: in one dispatch the handler runs at most once and only after the
\* stages lookup and validate, in that order; the payload it is given passed
\* the tool's declared schema and is what validation produced; a dispatch
\* that has failed has run no stage after the one that failed.
C24_StagesInOrder ==
    /\ handlerCalls <= 1
    /\ handlerCalls > 0 =>
          /\ stages = <<"lookup", "validate", "execute">>
          /\ Registered
          /\ ~FailsDeclaredSchema
          /\ variant = "tools" =>
                 req.input = inputSchemaParse(req.name, req.hasArgs, req.args).value
    /\ \A i \in 1..Len(stages) :
          stages[i] = <<"lookup", "validate", "execute">>[i]
    /\ (Failed /\ handlerCalls = 0) => "execute" \notin {stages[i] : i \in 1..Len(stages)}

====
